---- MODULE Spec2Model ----
(***************************************************************************)
(* vaultexec: main() fetches secrets, starts the token renewal goroutine,  *)
(* and calls RunWithEnvVars, which starts the child, subscribes to the     *)
(* termination signals, starts the relay goroutine, waits for the child    *)
(* and closes the signal channel.  Time is counted in half seconds, so     *)
(* that "half of d seconds" is the whole number d; the clock is read as    *)
(* the time the renewal loop has spent in its current sleep.               *)
(***************************************************************************)
EXTENDS Integers, Sequences, FiniteSets, TLC

\* ---------------------------------------------------------------- bounds
MaxExitCode == 2
MaxSignals == 2
MaxRecv == 3
MaxLease == 3
MaxRenewals == 2
LiveSignals == 1

\* ------------------------------------------------------------ value sets
\* signal.Notify(sigs, SIGINT, SIGTERM, SIGKILL, SIGQUIT): SIGKILL cannot be
\* caught, so the signals that can reach the channel are the other three.
SignalSet == {"SIGINT", "SIGTERM", "SIGQUIT"}

\* The zero value a receive on the closed channel yields.
NilSignal == "nil"

ExitCodes == 0..MaxExitCode

LeaseDurations == 0..MaxLease

NoOutcome == [kind |-> "pending", code |-> 0, sig |-> NilSignal]

VARIABLES
    mainPc,       \* position of main / RunWithEnvVars
    configOk,     \* config resolved, validated and secrets fetched
    runErr,       \* the error RunWithEnvVars returns ("nil" for none)
    exitCode,     \* the code the process exited with (-1: it has not exited)
    child,        \* "none" | "running" | "zombie" | "reaped"
    outcome,      \* how the child terminated
    subscribed,   \* signal.Notify has been called
    closed,       \* close(sigs) has run
    relayPc,      \* "none" | "starting" | "recv" | "deliver"
    relaySig,     \* the value the relay goroutine holds in sig
    osSignals,    \* number of signals the OS delivered to the supervisor
    lostAlive,    \* signals the runtime discarded while the child was running
                  \* (their number)
    received,     \* values the relay goroutine received from sigs, in order
    attempts,     \* values passed to cmd.Process.Signal, in order
    childGot,     \* signals that reached the running child, in order
    results,      \* what each cmd.Process.Signal call returned, in order
    lateAttempts, \* cmd.Process.Signal calls made after close(sigs)
    renewPc,      \* "none" | "sleep" | "renew" | "stopped"
    leaseTimeout, \* the loop's leaseTimeout variable
    lastLease,    \* lease duration the last successful renewal returned
    renewCalls,   \* calls of RenewVaultToken
    renewOks,     \* calls of RenewVaultToken that succeeded
    slept,        \* half seconds the loop has spent in its time.Sleep
    input,        \* arguments of the function a function-level run applies
    output        \* <<>> until that function has returned, then <<its result>>

mainVars == <<mainPc, configOk, runErr, exitCode>>
childVars == <<child, outcome>>
relayVars == <<subscribed, closed, relayPc, relaySig, osSignals, lostAlive,
               received, attempts, childGot, results, lateAttempts>>
renewVars == <<renewPc, leaseTimeout, lastLease, renewCalls, renewOks, slept>>
pureVars == <<input, output>>
vars == <<mainVars, childVars, relayVars, renewVars, pureVars>>

\* ------------------------------------------------------- pure operators
\* Go's integer division truncates toward zero.
GoDiv(a, b) ==
    IF a >= 0 THEN a \div b ELSE -((-a) \div b)

\* leaseTimeout = time.Duration(leaseDuration) / 2
HalfLease_Whole(d) == d
HalfLease(d) == GoDiv(d, 2)

\* time.Sleep(leaseTimeout * time.Second), in half seconds; a duration that
\* is not positive makes Sleep return at once.
SleepTicks(t) == IF t > 0 THEN 2 * t ELSE 0

\* The longest sleep a lease duration can ask for.
MaxTime == SleepTicks(HalfLease(MaxLease))

\* errCheck: log.Fatal exits with 1 on an error; main ends with os.Exit(0).
ExitCodeFor_AlwaysClean(err) == 0
ExitCodeFor(err) == IF err # "nil" THEN 1 ELSE 0

\* cmd.Wait(): nil for exit code 0, an *ExitError otherwise.
WaitResult(o) ==
    IF o.kind = "exit" /\ o.code = 0 THEN "nil"
    ELSE IF o.kind = "exit" THEN "exit"
    ELSE "signal"

\* cmd.Process.Signal(sig): fails once Wait has reaped the process and for
\* a value that is no syscall.Signal; the OS may also refuse (EPERM).
SignalResults(c, sig) ==
    IF sig = NilSignal \/ c = "reaped" THEN {"error"} ELSE {"ok", "error"}

Running == mainPc \notin {"exited", "panicked"}

\* ------------------------------------------------------------------ Init
\* The program before main's first statement.
ProgramStart ==
    /\ mainPc = "config"
    /\ configOk = FALSE
    /\ runErr = "nil"
    /\ exitCode = -1
    /\ child = "none"
    /\ outcome = NoOutcome
    /\ subscribed = FALSE
    /\ closed = FALSE
    /\ relayPc = "none"
    /\ relaySig = NilSignal
    /\ osSignals = 0
    /\ lostAlive = 0
    /\ received = <<>>
    /\ attempts = <<>>
    /\ childGot = <<>>
    /\ results = <<>>
    /\ lateAttempts = 0
    /\ renewPc = "none"
    /\ leaseTimeout = 0
    /\ lastLease = 0
    /\ renewCalls = 0
    /\ renewOks = 0
    /\ slept = 0

Init ==
    /\ ProgramStart
    /\ input = <<>>
    /\ output = <<>>

\* ------------------------------------------------------------------ main
\* main.go 43-60: the errors main hands to errCheck before the renewal
\* loop: no command (45-47), GenerateVaultConfig (52-55),
\* ValidateVaultConfig (57), GetVaultSecrets (59-60); NewVaultConfig always
\* returns a nil error.
ConfigErrors == {"command", "generate", "validate", "secrets"}

\* main.go 43-60: command check, NewVaultConfig, GenerateVaultConfig,
\* ValidateVaultConfig, GetVaultSecrets, each under errCheck.
ConfigAndSecrets_IgnoreError ==
    /\ UNCHANGED pureVars
    /\ mainPc = "config"
    /\ \E err \in ConfigErrors \cup {"nil"} :
         /\ configOk' = (err = "nil")
         /\ mainPc' = "goRenew"
         /\ exitCode' = exitCode
    /\ UNCHANGED <<runErr, childVars, relayVars, renewVars>>
ConfigAndSecrets ==
    /\ UNCHANGED pureVars
    /\ mainPc = "config"
    /\ \E err \in ConfigErrors \cup {"nil"} :
         IF err = "nil"
         THEN /\ configOk' = TRUE
              /\ mainPc' = "goRenew"
              /\ exitCode' = exitCode
         ELSE /\ configOk' = FALSE
              /\ mainPc' = "exited"
              /\ exitCode' = ExitCodeFor(err)
    /\ UNCHANGED <<runErr, childVars, relayVars, renewVars>>

\* main.go 64-77: go func() { leaseTimeout := 0 ... }()
GoRenewLoop_BeforeSecrets ==
    /\ UNCHANGED pureVars
    /\ mainPc = "config"
    /\ renewPc = "none"
    /\ renewPc' = "sleep"
    /\ leaseTimeout' = 0
    /\ slept' = 0
    /\ UNCHANGED <<mainVars, childVars, relayVars, lastLease, renewCalls,
                   renewOks>>
GoRenewLoop ==
    /\ UNCHANGED pureVars
    /\ mainPc = "goRenew"
    /\ mainPc' = "cmdStart"
    /\ renewPc' = "sleep"
    /\ leaseTimeout' = 0
    /\ slept' = 0
    /\ UNCHANGED <<configOk, runErr, exitCode, childVars, relayVars, lastLease,
                   renewCalls, renewOks>>

\* run.go 30-33: err := cmd.Start(); if err != nil { return err }
CmdStart ==
    /\ UNCHANGED pureVars
    /\ mainPc = "cmdStart"
    /\ \E ok \in BOOLEAN :
         IF ok
         THEN /\ child' = "running"
              /\ mainPc' = "notify"
              /\ runErr' = runErr
         ELSE /\ child' = child
              /\ mainPc' = "errCheck"
              /\ runErr' = "start"
    /\ UNCHANGED <<configOk, exitCode, outcome, relayVars, renewVars>>

\* run.go 35-43: sigs := make(chan os.Signal); signal.Notify(sigs, ...)
Notify_BeforeStart ==
    /\ UNCHANGED pureVars
    /\ mainPc = "cmdStart"
    /\ ~subscribed
    /\ subscribed' = TRUE
    /\ UNCHANGED <<mainVars, childVars, closed, relayPc, relaySig, osSignals,
                   lostAlive, received, attempts, childGot, results,
                   lateAttempts, renewVars>>
Notify ==
    /\ UNCHANGED pureVars
    /\ mainPc = "notify"
    /\ mainPc' = "goRelay"
    /\ subscribed' = TRUE
    /\ UNCHANGED <<configOk, runErr, exitCode, childVars, closed, relayPc,
                   relaySig, osSignals, lostAlive, received, attempts, childGot,
                   results, lateAttempts, renewVars>>

\* run.go 47: go func() { ... }()
GoRelay ==
    /\ UNCHANGED pureVars
    /\ mainPc = "goRelay"
    /\ mainPc' = "wait"
    /\ relayPc' = "starting"
    /\ UNCHANGED <<configOk, runErr, exitCode, childVars, subscribed, closed,
                   relaySig, osSignals, lostAlive, received, attempts, childGot,
                   results, lateAttempts, renewVars>>

\* run.go 61: cmd.Wait() returns once the child has terminated and reaps it.
CmdWait_Restart ==
    /\ UNCHANGED pureVars
    /\ mainPc = "wait"
    /\ child = "zombie"
    /\ child' = "running"
    /\ outcome' = NoOutcome
    /\ UNCHANGED <<mainVars, relayVars, renewVars>>
CmdWait ==
    /\ UNCHANGED pureVars
    /\ mainPc = "wait"
    /\ child = "zombie"
    /\ child' = "reaped"
    /\ runErr' = WaitResult(outcome)
    /\ mainPc' = "close"
    /\ UNCHANGED <<configOk, exitCode, outcome, relayVars, renewVars>>

\* run.go 59: defer close(sigs), run as RunWithEnvVars returns.
CloseSigs ==
    /\ UNCHANGED pureVars
    /\ mainPc = "close"
    /\ closed' = TRUE
    /\ mainPc' = "errCheck"
    /\ UNCHANGED <<configOk, runErr, exitCode, childVars, subscribed, relayPc,
                   relaySig, osSignals, lostAlive, received, attempts, childGot,
                   results, lateAttempts, renewVars>>

\* main.go 81-83: errCheck(RunWithEnvVars(...)); os.Exit(0)
ErrCheckExit ==
    /\ UNCHANGED pureVars
    /\ mainPc = "errCheck"
    /\ exitCode' = ExitCodeFor(runErr)
    /\ mainPc' = "exited"
    /\ UNCHANGED <<configOk, runErr, childVars, relayVars, renewVars>>

\* ----------------------------------------------------------------- child
\* The child terminates on its own with an exit code.
ChildExit ==
    /\ UNCHANGED pureVars
    /\ Running
    /\ child = "running"
    /\ \E c \in ExitCodes :
         outcome' = [kind |-> "exit", code |-> c, sig |-> NilSignal]
    /\ child' = "zombie"
    /\ UNCHANGED <<mainVars, relayVars, renewVars>>

\* ----------------------------------------------------------- signal relay
\* The os/signal package sends on sigs without blocking: the unbuffered
\* channel takes the signal only when the relay goroutine is parked in the
\* receive, and a send on the closed channel panics.
SignalArrive ==
    /\ UNCHANGED pureVars
    /\ Running
    /\ subscribed
    /\ osSignals < MaxSignals
    /\ osSignals' = osSignals + 1
    /\ \E s \in SignalSet :
         IF closed
         THEN /\ mainPc' = "panicked"
              /\ UNCHANGED <<relayPc, relaySig, received, lostAlive>>
         ELSE IF relayPc = "recv"
         THEN /\ relayPc' = "deliver"
              /\ relaySig' = s
              /\ received' = Append(received, s)
              /\ UNCHANGED <<mainPc, lostAlive>>
         ELSE /\ lostAlive' = IF child = "running"
                              THEN lostAlive + 1 ELSE lostAlive
              /\ UNCHANGED <<mainPc, relayPc, relaySig, received>>
    /\ UNCHANGED <<configOk, runErr, exitCode, childVars, subscribed, closed,
                   attempts, childGot, results, lateAttempts, renewVars>>

\* run.go 48: log.Println("VaultExec - Waiting for Signals"), then the loop.
RelayStart ==
    /\ UNCHANGED pureVars
    /\ Running
    /\ relayPc = "starting"
    /\ relayPc' = "recv"
    /\ UNCHANGED <<mainVars, childVars, subscribed, closed, relaySig, osSignals,
                   lostAlive, received, attempts, childGot, results,
                   lateAttempts, renewVars>>

\* run.go 49-50: for { sig := <-sigs ... }: a receive on the closed channel
\* returns the zero value at once.
RelayRecvClosed ==
    /\ UNCHANGED pureVars
    /\ Running
    /\ relayPc = "recv"
    /\ closed
    /\ Len(received) < MaxRecv
    /\ relayPc' = "deliver"
    /\ relaySig' = NilSignal
    /\ received' = Append(received, NilSignal)
    /\ UNCHANGED <<mainVars, childVars, subscribed, closed, osSignals, lostAlive,
                   attempts, childGot, results, lateAttempts, renewVars>>

\* run.go 51-55: err := cmd.Process.Signal(sig); an error is logged.  A
\* signal that reaches the running child either kills it or is handled.
RelayDeliver_Skip ==
    /\ UNCHANGED pureVars
    /\ Running
    /\ relayPc = "deliver"
    /\ relayPc' = "recv"
    /\ UNCHANGED <<mainVars, childVars, subscribed, closed, relaySig, osSignals,
                   lostAlive, received, attempts, childGot, results,
                   lateAttempts, renewVars>>
RelayDeliver_ErrorFatal ==
    /\ UNCHANGED pureVars
    /\ Running
    /\ relayPc = "deliver"
    /\ attempts' = Append(attempts, relaySig)
    /\ lateAttempts' = IF closed THEN lateAttempts + 1 ELSE lateAttempts
    /\ results' = Append(results, "error")
    /\ relayPc' = "none"
    /\ runErr' = "delivery"
    /\ UNCHANGED <<mainPc, configOk, exitCode, childVars, subscribed, closed,
                   relaySig, osSignals, lostAlive, received, childGot, renewVars>>
RelayDeliver ==
    /\ UNCHANGED pureVars
    /\ Running
    /\ relayPc = "deliver"
    /\ attempts' = Append(attempts, relaySig)
    /\ lateAttempts' = IF closed THEN lateAttempts + 1 ELSE lateAttempts
    /\ relayPc' = "recv"
    /\ \E res \in SignalResults(child, relaySig) :
         /\ results' = Append(results, res)
         /\ IF res = "ok" /\ child = "running"
            THEN /\ childGot' = Append(childGot, relaySig)
                 /\ \E killed \in BOOLEAN :
                      IF killed
                      THEN /\ child' = "zombie"
                           /\ outcome' = [kind |-> "signal", code |-> 0,
                                          sig |-> relaySig]
                      ELSE UNCHANGED childVars
            ELSE UNCHANGED <<childVars, childGot>>
    /\ UNCHANGED <<mainVars, subscribed, closed, relaySig, osSignals, lostAlive,
                   received, renewVars>>

\* ---------------------------------------------------------- renewal loop
\* main.go 67: time.Sleep(leaseTimeout * time.Second) returns, no sooner
\* than the duration asked for.
SleepDone ==
    /\ UNCHANGED pureVars
    /\ Running
    /\ renewPc = "sleep"
    /\ slept >= SleepTicks(leaseTimeout)
    /\ renewPc' = "renew"
    /\ UNCHANGED <<mainVars, childVars, relayVars, leaseTimeout, lastLease,
                   renewCalls, renewOks, slept>>

\* main.go 68, 75: RenewVaultToken succeeds with lease duration d; the loop
\* goes back to time.Sleep.
RenewOk_Stop ==
    /\ UNCHANGED pureVars
    /\ Running
    /\ renewPc = "renew"
    /\ renewCalls < MaxRenewals
    /\ renewCalls' = renewCalls + 1
    /\ renewOks' = renewOks + 1
    /\ \E d \in LeaseDurations :
         /\ lastLease' = d
         /\ leaseTimeout' = HalfLease(d)
    /\ slept' = 0
    /\ renewPc' = "stopped"
    /\ UNCHANGED <<mainVars, childVars, relayVars>>
RenewOk ==
    /\ UNCHANGED pureVars
    /\ Running
    /\ renewPc = "renew"
    /\ renewCalls < MaxRenewals
    /\ renewCalls' = renewCalls + 1
    /\ renewOks' = renewOks + 1
    /\ \E d \in LeaseDurations :
         /\ lastLease' = d
         /\ leaseTimeout' = HalfLease(d)
    /\ slept' = 0
    /\ renewPc' = "sleep"
    /\ UNCHANGED <<mainVars, childVars, relayVars>>

\* main.go 68-74: RenewVaultToken fails: the error is logged and the
\* goroutine returns.
RenewFail_Fatal ==
    /\ UNCHANGED pureVars
    /\ Running
    /\ renewPc = "renew"
    /\ renewCalls < MaxRenewals
    /\ renewCalls' = renewCalls + 1
    /\ renewPc' = "stopped"
    /\ mainPc' = "exited"
    /\ exitCode' = ExitCodeFor("renew")
    /\ UNCHANGED <<configOk, runErr, childVars, relayVars, leaseTimeout,
                   lastLease, renewOks, slept>>
RenewFail_Retry ==
    /\ UNCHANGED pureVars
    /\ Running
    /\ renewPc = "renew"
    /\ renewCalls < MaxRenewals
    /\ renewCalls' = renewCalls + 1
    /\ slept' = 0
    /\ renewPc' = "sleep"
    /\ UNCHANGED <<mainVars, childVars, relayVars, leaseTimeout, lastLease,
                   renewOks>>
RenewFail ==
    /\ UNCHANGED pureVars
    /\ Running
    /\ renewPc = "renew"
    /\ renewCalls < MaxRenewals
    /\ renewCalls' = renewCalls + 1
    /\ renewPc' = "stopped"
    /\ UNCHANGED <<mainVars, childVars, relayVars, leaseTimeout, lastLease,
                   renewOks, slept>>

\* Half a second of the loop's sleep passes; the clock stops at the
\* duration the sleep was asked for.
Tick ==
    /\ UNCHANGED pureVars
    /\ Running
    /\ renewPc = "sleep"
    /\ slept < SleepTicks(leaseTimeout)
    /\ slept' = slept + 1
    /\ UNCHANGED <<mainVars, childVars, relayVars, renewPc, leaseTimeout,
                   lastLease, renewCalls, renewOks>>

\* ------------------------------------------------------------------ spec
Next ==
    \/ ConfigAndSecrets
    \/ GoRenewLoop
    \/ CmdStart
    \/ Notify
    \/ GoRelay
    \/ CmdWait
    \/ CloseSigs
    \/ ErrCheckExit
    \/ ChildExit
    \/ SignalArrive
    \/ RelayStart
    \/ RelayRecvClosed
    \/ RelayDeliver
    \/ SleepDone
    \/ RenewOk
    \/ RenewFail
    \/ Tick

Spec == Init /\ [][Next]_vars

TypeOK ==
    /\ mainPc \in {"config", "goRenew", "cmdStart", "notify", "goRelay", "wait",
                   "close", "errCheck", "exited", "panicked"}
    /\ child \in {"none", "running", "zombie", "reaped"}
    /\ relayPc \in {"none", "starting", "recv", "deliver"}
    /\ renewPc \in {"none", "sleep", "renew", "stopped"}
    /\ exitCode \in -1..255
    /\ slept \in 0..MaxTime

\* ---------------------------------------------------------- properties
Launched == child # "none"

Returned == mainPc \in {"errCheck", "exited"}

\* C1: when the child was launched and terminated normally with exit code
\* c, the program exits with exactly c.
C1_ExitCodePropagated ==
    (mainPc = "exited" /\ Launched /\ outcome.kind = "exit")
        => exitCode = outcome.code

\* C2: a signal that reaches the supervisor while the child is running is
\* passed on to the child (none is discarded), and when the child was
\* terminated by a signal RunWithEnvVars returns a non-nil error and the
\* program does not exit with 0.
C2_InterruptRelayed ==
    /\ lostAlive = 0
    /\ (Returned /\ Launched /\ outcome.kind = "signal") => runErr # "nil"
    /\ (mainPc = "exited" /\ Launched /\ outcome.kind = "signal")
           => exitCode # 0

\* C3 as stated: a failed launch returns the error without waiting and the
\* program exits with a non-zero code that no run with a launched and
\* exited child produces.
C3_StartFailureCodeDistinct ==
    /\ runErr = "start" => (child = "none" /\ Returned)
    /\ (mainPc = "exited" /\ runErr = "start") => exitCode # 0
    /\ (mainPc = "exited" /\ child = "reaped")
           => exitCode # ExitCodeFor("start")

\* C3 amended: a failed launch returns the error without waiting (the child
\* never exists, main goes straight to errCheck) and the program exits with
\* the non-zero code 1; that code differs from the code 0 of a run whose
\* child exited cleanly, and code 0 is produced only for such a run.
C3_StartFailureNonZero ==
    /\ runErr = "start" => (child = "none" /\ Returned)
    /\ child = "none" => mainPc \notin {"notify", "goRelay", "wait", "close"}
    /\ (mainPc = "exited" /\ runErr = "start") => exitCode = 1
    /\ (mainPc = "exited" /\ exitCode = 0)
           => (child = "reaped" /\ outcome.kind = "exit" /\ outcome.code = 0)

C3_Witness ==
    mainPc = "exited" /\ runErr = "start" /\ child = "none" /\ exitCode = 1

C5_NoRelayBeforeStart ==
    (subscribed \/ relayPc # "none" \/ osSignals > 0 \/ received # <<>>
        \/ attempts # <<>>) => Launched

C5_Witness ==
    subscribed /\ Launched /\ Len(attempts) > 0 /\ child = "running"

\* C6: once cmd.Wait has returned and close(sigs) has run, the relay
\* goroutine calls cmd.Process.Signal no more.
C6_NoDeliveryAfterStop ==
    lateAttempts = 0

C10_WaitsExactlyHalf ==
    /\ (renewOks > 0 /\ renewPc \in {"sleep", "renew"})
           => SleepTicks(leaseTimeout) = lastLease
    /\ (renewOks > 0 /\ renewPc = "renew") => slept >= lastLease

\* C10 amended: after a renewal that returned d seconds the loop waits
\* floor(d/2) whole seconds, computed from that d, and the next attempt
\* comes no sooner than floor(d/2) seconds after it.
C10_WaitsHalfRoundedDown ==
    /\ (renewOks > 0 /\ renewPc \in {"sleep", "renew"})
           => /\ leaseTimeout = lastLease \div 2
              /\ SleepTicks(leaseTimeout) = 2 * (lastLease \div 2)
    /\ (renewOks > 0 /\ renewPc = "renew") => slept >= 2 * (lastLease \div 2)
    /\ renewOks = 0 => leaseTimeout = 0

C10_Witness ==
    renewOks = 1 /\ renewPc = "renew" /\ lastLease = 3 /\ slept = 2

\* C11: after the first call of RenewVaultToken that returns an error the
\* loop has stopped: exactly one call has failed, it was the last call made,
\* and a stopped loop makes no further call.
C11_StoppedAfterFirstFailure ==
    /\ renewCalls - renewOks \in {0, 1}
    /\ renewPc = "stopped" <=> renewCalls = renewOks + 1
    /\ renewPc = "none" => renewCalls = 0

C11_Witness ==
    /\ renewPc = "stopped"
    /\ renewCalls = 1
    /\ renewCalls < MaxRenewals
    /\ mainPc = "exited"
    /\ child = "reaped"

\* C12: no step of the renewal loop (its sleep ending, time passing, a
\* renewal that succeeds or fails) changes the child, the relay, or main's
\* position, return value and exit code.
C12_RenewalLoopFrame ==
    [][(renewPc # "none" /\ renewVars' # renewVars)
          => UNCHANGED <<mainVars, childVars, relayVars>>]_vars

C12_Witness ==
    /\ renewPc = "stopped"
    /\ renewOks = 1
    /\ child = "running"
    /\ mainPc = "wait"
    /\ relayPc = "recv"
    /\ subscribed

\* C14: a signal the OS delivers after close(sigs) and before the process
\* has exited does not crash the supervisor: the program always ends by
\* exiting with the one code the child's outcome determines.
C14_SignalAfterStopHarmless ==
    /\ mainPc # "panicked"
    /\ (mainPc = "exited" /\ Launched)
           => exitCode = ExitCodeFor(WaitResult(outcome))

\* The child's life only moves forward: not started, running, terminated,
\* reaped.
ChildRank(c) ==
    IF c = "none" THEN 0
    ELSE IF c = "running" THEN 1
    ELSE IF c = "zombie" THEN 2
    ELSE 3

\* C15: one child per run: cmd.Start is executed at most once (main never
\* comes back to it, a failed start is not retried), and a child that has
\* terminated is never running again.
C15_OneChildPerRun ==
    [][/\ ChildRank(child') >= ChildRank(child)
       /\ (child # "none" /\ child' # child) => mainPc # "cmdStart"
       /\ mainPc \notin {"config", "goRenew", "cmdStart"}
              => mainPc' \notin {"config", "goRenew", "cmdStart"}
       /\ runErr = "start" => child' = "none"]_vars

C15_Witness ==
    /\ mainPc = "exited"
    /\ child = "reaped"
    /\ outcome.kind = "signal"
    /\ Len(childGot) = 2

\* C20: the renewal loop is cancelled when the child exits: once cmd.Wait
\* has returned, no call of RenewVaultToken is started.
C20_RenewalCancelledOnChildExit ==
    [][(child = "reaped" /\ Running) => renewCalls' = renewCalls]_vars

\* ------------------------------------------- the child's environment
\* Strings are sequences of characters.
MaxKeyLen == 2
MaxOverlay == 2

EnvChars == {"a", "="}

StringsUpTo(chars, n) == UNION {[1..m -> chars] : m \in 1..n}

\* Names the parent environment can hold: no "=" in them.
ParentKeys == {<<"a">>, <<"b">>}

\* Keys a secret can have: any non-empty string.
OverlayKeys == StringsUpTo(EnvChars, MaxKeyLen)

EnvValues == {<<"x">>, <<"=", "y">>}

\* run.go 25: fmt.Sprintf("%s=%s", k, v)
Sprintf(k, v) == k \o <<"=">> \o v

\* An entry "name=value" is split at its first "=".
FirstEq(entry) ==
    IF \E i \in 1..Len(entry) : entry[i] = "="
    THEN CHOOSE i \in 1..Len(entry) :
             entry[i] = "=" /\ \A j \in 1..(i - 1) : entry[j] # "="
    ELSE 0

EnvKey(entry) == SubSeq(entry, 1, FirstEq(entry) - 1)

EnvValue(entry) == SubSeq(entry, FirstEq(entry) + 1, Len(entry))

DistinctKeys(seq) ==
    \A i, j \in 1..Len(seq) : seq[i].k = seq[j].k => i = j

\* A map[string]string, in the order a range over it happens to take.
Overlays ==
    {o \in UNION {[1..m -> [k : OverlayKeys, v : EnvValues]] : m \in 0..MaxOverlay} :
        DistinctKeys(o)}

\* os.Environ(): "name=value" entries with distinct names.
ParentEnvs ==
    {[i \in 1..Len(e) |-> Sprintf(e[i].k, e[i].v)] :
        e \in {p \in UNION {[1..m -> [k : ParentKeys, v : EnvValues]] : m \in 0..2} :
                  DistinctKeys(p)}}

\* run.go 23-27: env := os.Environ(); for k, v := range envVars
\* { env = append(env, fmt.Sprintf("%s=%s", k, v)) }; cmd.Env = env
CmdEnv_OverlayFirst(environ, envVars) ==
    [i \in 1..Len(envVars) |-> Sprintf(envVars[i].k, envVars[i].v)] \o environ
CmdEnv(environ, envVars) ==
    environ \o [i \in 1..Len(envVars) |-> Sprintf(envVars[i].k, envVars[i].v)]

\* cmd.Start: of the entries of cmd.Env with the same name the last is used.
EnvHas(env, name) == \E i \in 1..Len(env) : EnvKey(env[i]) = name

EnvLookup(env, name) ==
    LET last == CHOOSE i \in 1..Len(env) :
                    /\ EnvKey(env[i]) = name
                    /\ \A j \in (i + 1)..Len(env) : EnvKey(env[j]) # name
    IN  EnvValue(env[last])

InitEnv ==
    /\ ProgramStart
    /\ input \in [environ : ParentEnvs, envVars : Overlays]
    /\ output = <<>>

BuildEnv ==
    /\ output = <<>>
    /\ output' = <<CmdEnv(input.environ, input.envVars)>>
    /\ UNCHANGED <<mainVars, childVars, relayVars, renewVars, input>>

SpecEnv == InitEnv /\ [][BuildEnv]_vars

InOverlay(o, name) == \E i \in 1..Len(o) : o[i].k = name

\* The child's environment agrees with the overlay o on o's keys and with
\* the parent environment e on e's other names.
OverlayWins(env, e, o) ==
    /\ \A i \in 1..Len(o) :
           EnvHas(env, o[i].k) /\ EnvLookup(env, o[i].k) = o[i].v
    /\ \A i \in 1..Len(e) :
           ~InOverlay(o, EnvKey(e[i]))
               => (EnvHas(env, EnvKey(e[i]))
                   /\ EnvLookup(env, EnvKey(e[i])) = EnvValue(e[i]))

PlainKeys(o) ==
    \A i \in 1..Len(o) : \A j \in 1..Len(o[i].k) : o[i].k[j] # "="

\* C13 as stated: for every parent environment and every overlay, the
\* child's environment has the overlay's value for each overlay key and the
\* parent's value for every other name.
C13_OverlayAlwaysWins ==
    output # <<>> => OverlayWins(output[1], input.environ, input.envVars)

\* C13 amended: the same, for every overlay none of whose keys contains "="
\* (an entry is split at its first "=", so a key holding one names another
\* variable).
C13_OverlayWinsForPlainKeys ==
    (output # <<>> /\ PlainKeys(input.envVars))
        => OverlayWins(output[1], input.environ, input.envVars)

C13_Witness ==
    /\ output # <<>>
    /\ Len(input.environ) = 2
    /\ Len(input.envVars) = 2
    /\ PlainKeys(input.envVars)
    /\ InOverlay(input.envVars, EnvKey(input.environ[1]))
    /\ EnvLookup(output[1], EnvKey(input.environ[1])) # EnvValue(input.environ[1])
    /\ ~InOverlay(input.envVars, EnvKey(input.environ[2]))

\* ------------------------------------------------- requests to vault
MaxErrors == 2

HttpStatuses == {200, 204, 403, 500}

\* What client.Do and ioutil.ReadAll give: a transport failure, or a status
\* and a body; the body is empty, not JSON, or a JSON object with a list of
\* errors and a lease duration (0 when it names none).
VaultResponses ==
    [transport : {"ok", "failed"},
     status : HttpStatuses,
     body : {"empty", "invalid", "json"},
     errors : 0..MaxErrors,
     lease : LeaseDurations]

\* vault.go 176-214: makeVaultRequest returns an error for a transport
\* failure and for an empty body; it does not look at resp.StatusCode.
makeVaultRequest(resp) ==
    IF resp.transport = "failed" THEN [err |-> TRUE, body |-> "nil"]
    ELSE IF resp.body = "empty" THEN [err |-> TRUE, body |-> "nil"]
    ELSE [err |-> FALSE, body |-> resp.body]

\* vault.go 269-291: RenewVaultToken
RenewVaultToken(resp) ==
    LET req == makeVaultRequest(resp)
    IN  IF req.err THEN [err |-> TRUE, lease |-> 0]
        ELSE IF req.body = "invalid" THEN [err |-> TRUE, lease |-> 0]
        ELSE IF resp.errors > 0 THEN [err |-> TRUE, lease |-> 0]
        ELSE [err |-> FALSE, lease |-> resp.lease]

InitRenewCall ==
    /\ ProgramStart
    /\ input \in VaultResponses
    /\ output = <<>>

CallRenewVaultToken ==
    /\ output = <<>>
    /\ output' = <<RenewVaultToken(input)>>
    /\ UNCHANGED <<mainVars, childVars, relayVars, renewVars, input>>

SpecRenewCall == InitRenewCall /\ [][CallRenewVaultToken]_vars

SuccessStatus(status) == status \div 100 = 2

\* C16: RenewVaultToken returns an error for a transport failure, an empty
\* body, a body that is not JSON, a body that reports errors, and every
\* response whose HTTP status is not a success; it returns a lease duration
\* only for a successful response.
C16_ErrorForEveryNonSuccess ==
    output # <<>> =>
        /\ (\/ input.transport = "failed"
            \/ input.body # "json"
            \/ input.errors > 0
            \/ ~SuccessStatus(input.status)) => output[1].err
        /\ ~output[1].err => output[1].lease = input.lease

\* ------------------------------------------------------ GetVaultSecrets
MaxPathLen == 4

PathChars == {"p", "q", ","}

PathStrings == StringsUpTo(PathChars, MaxPathLen)

PathDelims == {<<",">>, <<",", ",">>}

\* The secret paths the vault server knows; a lookup of any other fails.
SecretPaths == {<<"p">>, <<"q">>}

SecretKeys == {"k1", "k2"}

SecretValues == {"v1", "v2"}

\* map[string]interface{}
SecretMaps == UNION {[ks -> SecretValues] : ks \in SUBSET SecretKeys}

EmptyMap == [k \in {} |-> "v1"]

LookupFailed == [err |-> TRUE, data |-> EmptyMap]

\* What GetVaultSecretsAtPath returns for a path: an error and a nil map, or
\* the data of the response (vault.go 243-265).
PathResults == {LookupFailed} \cup {[err |-> FALSE, data |-> m] : m \in SecretMaps}

GetVaultSecretsAtPath(path, store) ==
    IF path \in DOMAIN store THEN store[path] ELSE LookupFailed

\* strings.Index: the first place sep occurs in str, 0 when it does not.
IndexOf(str, sep) ==
    LET hits == {i \in 1..(Len(str) - Len(sep) + 1) :
                    SubSeq(str, i, i + Len(sep) - 1) = sep}
    IN  IF hits = {} THEN 0
        ELSE CHOOSE i \in hits : \A j \in hits : i <= j

\* strings.Split(str, sep), for a separator that is not empty.
RECURSIVE Split(_, _)
Split(str, sep) ==
    LET i == IndexOf(str, sep)
    IN  IF i = 0 THEN <<str>>
        ELSE <<SubSeq(str, 1, i - 1)>>
                 \o Split(SubSeq(str, i + Len(sep), Len(str)), sep)

\* vault.go 233-235: for k, v := range secrets { mergedSecrets[k] = v }
MergeSecrets_KeepFirst(mergedSecrets, secrets) ==
    [k \in DOMAIN mergedSecrets \cup DOMAIN secrets |->
        IF k \in DOMAIN mergedSecrets THEN mergedSecrets[k] ELSE secrets[k]]
MergeSecrets(mergedSecrets, secrets) ==
    [k \in DOMAIN mergedSecrets \cup DOMAIN secrets |->
        IF k \in DOMAIN secrets THEN secrets[k] ELSE mergedSecrets[k]]

\* vault.go 227-236: the loop over paths, from the i-th on; lookups are the
\* paths requested so far.
FetchFailed_Partial(mergedSecrets, lookups) ==
    [err |-> TRUE, secrets |-> mergedSecrets, nilMap |-> FALSE,
     lookups |-> lookups]

\* vault.go 229-231: if err != nil { return nil, err }
FetchFailed(mergedSecrets, lookups) ==
    [err |-> TRUE, secrets |-> EmptyMap, nilMap |-> TRUE, lookups |-> lookups]

RECURSIVE FetchFrom(_, _, _, _, _)
FetchFrom(paths, i, mergedSecrets, lookups, store) ==
    IF i > Len(paths)
    THEN [err |-> FALSE, secrets |-> mergedSecrets, nilMap |-> FALSE,
          lookups |-> lookups]
    ELSE LET got == GetVaultSecretsAtPath(paths[i], store)
         IN  IF got.err
             THEN FetchFailed(mergedSecrets, Append(lookups, paths[i]))
             ELSE FetchFrom(paths, i + 1, MergeSecrets(mergedSecrets, got.data),
                            Append(lookups, paths[i]), store)

\* vault.go 218-239: GetVaultSecrets
GetVaultSecrets(config, store) ==
    FetchFrom(Split(config.Path, config.PathDelim), 1, EmptyMap, <<>>, store)

InitSecrets ==
    /\ ProgramStart
    /\ input \in [Path : PathStrings, PathDelim : PathDelims,
                  store : [SecretPaths -> PathResults]]
    /\ output = <<>>

CallGetVaultSecrets ==
    /\ output = <<>>
    /\ output' = <<GetVaultSecrets(input, input.store)>>
    /\ UNCHANGED <<mainVars, childVars, relayVars, renewVars, input>>

SpecSecrets == InitSecrets /\ [][CallGetVaultSecrets]_vars

\* C17: GetVaultSecrets looks the paths up in the order they stand in Path,
\* and when every lookup succeeds the result has exactly the keys of the
\* paths' secrets, each with the value of the last path holding it.
C17_LaterPathWins ==
    (output # <<>> /\ ~output[1].err) =>
        LET paths == Split(input.Path, input.PathDelim)
            data(i) == input.store[paths[i]].data
        IN  /\ output[1].lookups = paths
            /\ \A i \in 1..Len(paths) : paths[i] \in SecretPaths
            /\ DOMAIN output[1].secrets
                   = UNION {DOMAIN data(i) : i \in 1..Len(paths)}
            /\ \A k \in DOMAIN output[1].secrets :
                   \E i \in 1..Len(paths) :
                       /\ k \in DOMAIN data(i)
                       /\ output[1].secrets[k] = data(i)[k]
                       /\ \A j \in (i + 1)..Len(paths) : k \notin DOMAIN data(j)

C17_Witness ==
    /\ output # <<>>
    /\ ~output[1].err
    /\ input.Path = <<"p", ",", "q">>
    /\ output[1].lookups = <<<<"p">>, <<"q">>>>
    /\ DOMAIN input.store[<<"p">>].data = {"k1", "k2"}
    /\ DOMAIN input.store[<<"q">>].data = {"k1"}
    /\ input.store[<<"p">>].data["k1"] # input.store[<<"q">>].data["k1"]
    /\ output[1].secrets["k1"] = input.store[<<"q">>].data["k1"]
    /\ output[1].secrets["k2"] = input.store[<<"p">>].data["k2"]

\* ------------------------------------------------- failed lookups
\* A map an error response may carry beside its errors.
ErrorData == {EmptyMap, [k \in {"k1"} |-> "v1"]}

\* What the vault server answers a lookup with: no answer (transport
\* failure), an empty body, a body that is not JSON, a JSON object listing
\* errors, or a JSON object with data and no errors.
SecretResponses ==
    {[transport |-> "failed", body |-> "empty", errors |-> 0, data |-> EmptyMap],
     [transport |-> "ok", body |-> "empty", errors |-> 0, data |-> EmptyMap],
     [transport |-> "ok", body |-> "invalid", errors |-> 0, data |-> EmptyMap]}
    \cup [transport : {"ok"}, body : {"json"}, errors : 1..MaxErrors,
          data : ErrorData]
    \cup [transport : {"ok"}, body : {"json"}, errors : {0}, data : SecretMaps]

\* vault.go 243-265: what GetVaultSecretsAtPath makes of the response.
SecretsOfResponse(resp) ==
    LET req == makeVaultRequest(resp)
    IN  IF req.err THEN LookupFailed
        ELSE IF req.body = "invalid" THEN LookupFailed
        ELSE IF resp.errors > 0 THEN LookupFailed
        ELSE [err |-> FALSE, data |-> resp.data]

InitLookups ==
    /\ ProgramStart
    /\ \E responses \in [SecretPaths -> SecretResponses] :
         input \in [Path : PathStrings, PathDelim : PathDelims,
                    responses : {responses},
                    store : {[p \in SecretPaths |->
                                 SecretsOfResponse(responses[p])]}]
    /\ output = <<>>

SpecLookups == InitLookups /\ [][CallGetVaultSecrets]_vars

\* The lookup of a path fails: the server does not know the path or does
\* not answer, or answers with an empty body, with a body that is not JSON,
\* or with a list of errors.
LookupFails(path) ==
    \/ path \notin SecretPaths
    \/ input.responses[path].transport = "failed"
    \/ input.responses[path].body \in {"empty", "invalid"}
    \/ input.responses[path].errors > 0

\* C24: when the lookup of a path fails GetVaultSecrets returns an error
\* and a nil map, nothing of what the paths before it held, and it has
\* looked up the paths up to the failing one and none after it; it returns
\* no error only when no lookup fails.
C24_AllOrNothing ==
    output # <<>> =>
        LET paths == Split(input.Path, input.PathDelim)
            failing == {i \in 1..Len(paths) : LookupFails(paths[i])}
        IN  IF failing = {}
            THEN ~output[1].err /\ ~output[1].nilMap
            ELSE LET first == CHOOSE i \in failing : \A j \in failing : i <= j
                 IN  /\ output[1].err
                     /\ output[1].nilMap
                     /\ output[1].secrets = EmptyMap
                     /\ output[1].lookups = SubSeq(paths, 1, first)

\* Of three paths the first gave secrets, the second answered with errors
\* and the third was never asked for.
C24_Witness ==
    /\ output # <<>>
    /\ input.Path = <<"p", ",", "q", ",">>
    /\ input.PathDelim = <<",">>
    /\ DOMAIN input.responses[<<"p">>].data = {"k1", "k2"}
    /\ input.responses[<<"p">>].errors = 0
    /\ input.responses[<<"q">>].errors = 1
    /\ output[1].err
    /\ output[1].nilMap
    /\ output[1].lookups = <<<<"p">>, <<"q">>>>

\* ------------------------------------------------------- NewVaultConfig
\* A command-line option: given is whether the user passed it; when not,
\* value is the flag's default ("" for address, token and path; vault.go
\* 130-132: "," for the path delimiter).
OptionsOf(values, default) ==
    {[given |-> TRUE, value |-> v] : v \in values}
        \cup {[given |-> FALSE, value |-> default]}

\* Addresses are sequences of characters, for the trailing slash.
AddressOptions == OptionsOf({<<>>, <<"h">>, <<"h", "/">>}, <<>>)

TokenOptions == OptionsOf({"", "t1"}, "")

PathOptions == OptionsOf({"", "p1"}, "")

PathDelimOptions == OptionsOf({"", ",", ";"}, ",")

\* os.Getenv gives "" for a variable that is not set.
Environments ==
    [VAULT_ADDR : {<<>>, <<"g">>},
     VAULT_TOKEN : {"", "t2"},
     VAULT_PATH : {"", "p2"},
     VAULT_PATH_DELIM : {"", ":"}]

\* vault.go 139-142: strings.HasSuffix(config.Address, "/")
TrimSlash(address) ==
    IF Len(address) > 0 /\ address[Len(address)] = "/"
    THEN SubSeq(address, 1, Len(address) - 1)
    ELSE address

\* vault.go 111-145: NewVaultConfig
NewVaultConfig(address, token, path, pathDelim, env) ==
    [Address |-> TrimSlash(IF Len(address) = 0 THEN env.VAULT_ADDR ELSE address),
     Token |-> IF token = "" THEN env.VAULT_TOKEN ELSE token,
     Path |-> IF path = "" THEN env.VAULT_PATH ELSE path,
     PathDelim |-> IF (pathDelim = "" \/ pathDelim = ",")
                      /\ env.VAULT_PATH_DELIM # ""
                   THEN env.VAULT_PATH_DELIM
                   ELSE pathDelim]

InitConfig ==
    /\ ProgramStart
    /\ input \in [address : AddressOptions, token : TokenOptions,
                  path : PathOptions, pathDelim : PathDelimOptions,
                  env : Environments]
    /\ output = <<>>

CallNewVaultConfig ==
    /\ output = <<>>
    /\ output' = <<NewVaultConfig(input.address.value, input.token.value,
                                  input.path.value, input.pathDelim.value,
                                  input.env)>>
    /\ UNCHANGED <<mainVars, childVars, relayVars, renewVars, input>>

SpecConfig == InitConfig /\ [][CallNewVaultConfig]_vars

\* C18: for address, token, path and path delimiter, the value of an option
\* the user passed is the one in the config (the address without its
\* trailing slash), whatever the environment variable holds; the
\* environment variable is used only when the option was not passed.
C18_OptionOverridesEnvironment ==
    output # <<>> =>
        /\ input.address.given
               => output[1].Address = TrimSlash(input.address.value)
        /\ input.token.given => output[1].Token = input.token.value
        /\ input.path.given => output[1].Path = input.path.value
        /\ input.pathDelim.given
               => output[1].PathDelim = input.pathDelim.value

\* -------------------------------------------------- GenerateVaultConfig
\* vault.go 19-24: the JSON names of VaultConfig's fields.
JsonKeys == {"address", "token", "path", "path-delim"}

\* What the generator's JSON object holds under one key: nothing, null, a
\* number, or a string.
JsonValues ==
    {<<"omitted">>, <<"null">>, <<"number">>, <<"string", "">>,
     <<"string", "g">>}

\* What the generator command did: whether cmd.Run failed, and what it
\* wrote on standard output (text that is not JSON, or a JSON object).
GeneratorRuns ==
    [runFailed : BOOLEAN, isJson : BOOLEAN, fields : [JsonKeys -> JsonValues]]

StartingConfigs ==
    [Address : {"", "c"}, Token : {"", "c"}, Path : {"", "c"},
     PathDelim : {"", ","}]

\* encoding/json into a string field: a string is stored, null and a missing
\* key leave the zero value, any other type leaves it and is an error.
DecodeString(v) == IF v[1] = "string" THEN v[2] ELSE ""

\* vault.go 84-86: json.Unmarshal(stdoutBytes.Bytes(), &stdoutVaultConfig)
Unmarshal(run) ==
    [err |-> \/ ~run.isJson
             \/ \E k \in JsonKeys : run.fields[k] = <<"number">>,
     value |-> IF run.isJson
               THEN [Address |-> DecodeString(run.fields["address"]),
                     Token |-> DecodeString(run.fields["token"]),
                     Path |-> DecodeString(run.fields["path"]),
                     PathDelim |-> DecodeString(run.fields["path-delim"])]
               ELSE [Address |-> "", Token |-> "", Path |-> "",
                     PathDelim |-> ""]]

\* vault.go 64-77: the variables appended to the generator's environment.
GeneratorEnv(config) ==
    (IF config.Address # "" THEN <<<<"VAULT_ADDR", config.Address>>>> ELSE <<>>)
    \o (IF config.Token # "" THEN <<<<"VAULT_TOKEN", config.Token>>>> ELSE <<>>)
    \o (IF config.Path # "" THEN <<<<"VAULT_PATH", config.Path>>>> ELSE <<>>)
    \o (IF config.PathDelim # ""
        THEN <<<<"VAULT_PATH_DELIM", config.PathDelim>>>> ELSE <<>>)

MergeField_Overwrite(start, printed) == printed

\* vault.go 92-103: if len(stdoutVaultConfig.X) > 0 { config.X = ... }
MergeField(start, printed) == IF printed # "" THEN printed ELSE start

\* vault.go 55-107: GenerateVaultConfig
GenerateVaultConfig(run, config) ==
    LET env == GeneratorEnv(config)
        decoded == Unmarshal(run)
    IN  IF run.runFailed
        THEN [config |-> config, err |-> TRUE, env |-> env]
        ELSE IF decoded.err
        THEN [config |-> config, err |-> TRUE, env |-> env]
        ELSE [config |->
                  [Address |-> MergeField(config.Address, decoded.value.Address),
                   Token |-> MergeField(config.Token, decoded.value.Token),
                   Path |-> MergeField(config.Path, decoded.value.Path),
                   PathDelim |-> MergeField(config.PathDelim,
                                            decoded.value.PathDelim)],
              err |-> FALSE, env |-> env]

InitGenerate ==
    /\ ProgramStart
    /\ input \in [run : GeneratorRuns, config : StartingConfigs]
    /\ output = <<>>

CallGenerateVaultConfig ==
    /\ output = <<>>
    /\ output' = <<GenerateVaultConfig(input.run, input.config)>>
    /\ UNCHANGED <<mainVars, childVars, relayVars, renewVars, input>>

SpecGenerate == InitGenerate /\ [][CallGenerateVaultConfig]_vars

\* The generator ran and printed a JSON object whose four fields, where
\* present, are strings or null.
GeneratorSucceeded ==
    /\ ~input.run.runFailed
    /\ input.run.isJson
    /\ \A k \in JsonKeys : input.run.fields[k] # <<"number">>

\* The value the merge must give a field: the printed string when the
\* generator printed a non-empty one, the starting value otherwise.
Merged(start, k) ==
    IF input.run.fields[k][1] = "string" /\ input.run.fields[k][2] # ""
    THEN input.run.fields[k][2]
    ELSE start

\* C19: GenerateVaultConfig replaces each field of the starting config by
\* the non-empty value the generator printed for it and keeps the starting
\* value of a field printed empty or omitted; when the generator fails or
\* prints invalid JSON it returns an error and the starting config
\* unchanged.
C19_MergedFieldByField ==
    output # <<>> =>
        IF GeneratorSucceeded
        THEN /\ ~output[1].err
             /\ output[1].config.Address = Merged(input.config.Address, "address")
             /\ output[1].config.Token = Merged(input.config.Token, "token")
             /\ output[1].config.Path = Merged(input.config.Path, "path")
             /\ output[1].config.PathDelim
                    = Merged(input.config.PathDelim, "path-delim")
        ELSE /\ output[1].err
             /\ output[1].config = input.config

\* The generator printed a new address and an empty token for a starting
\* config that has both: the address is replaced and the token kept.
C19_Witness ==
    /\ output # <<>>
    /\ GeneratorSucceeded
    /\ input.config.Address = "c"
    /\ input.config.Token = "c"
    /\ input.run.fields["address"] = <<"string", "g">>
    /\ input.run.fields["token"] = <<"string", "">>
    /\ input.run.fields["path"] = <<"omitted">>
    /\ output[1].config.Address = "g"
    /\ output[1].config.Token = "c"

\* ---------------------------------------------------------------- progress
\* Scheduling: time passes, the Go runtime wakes the renewal goroutine once
\* its timer has fired, and the main goroutine, which nothing else blocks,
\* takes each step of RunWithEnvVars and main it is able to take.  Nothing
\* is assumed of the renewal call, the relay goroutine, the child or the OS.
Fairness ==
    /\ WF_vars(Tick)
    /\ WF_vars(SleepDone)
    /\ WF_vars(Notify)
    /\ WF_vars(GoRelay)
    /\ WF_vars(CmdWait)
    /\ WF_vars(CloseSigs)
    /\ WF_vars(ErrCheckExit)

\* The runs in which the OS delivers at most LiveSignals signals.
NextLive == Next /\ osSignals' <= LiveSignals

FairSpec == Init /\ [][NextLive]_vars /\ Fairness

\* The steps of the renewal loop: started asleep, sleep to renewal call,
\* renewal call back to sleep, renewal call to stopped.
RenewalSteps ==
    {<<"none", "sleep">>, <<"sleep", "renew">>, <<"renew", "sleep">>,
     <<"renew", "stopped">>}

\* C21: the renewal loop starts with a wait of zero, so that its first call
\* of RenewVaultToken comes at once; it moves only from waiting to renewing
\* and from renewing to waiting (by a success) or to stopped (by a failure,
\* and by nothing else), stopped is final; and while the program runs, a
\* loop that waits eventually begins another renewal call.
C21_RenewalStateMachine ==
    /\ []((renewCalls = 0 /\ renewPc \in {"sleep", "renew"})
             => (leaseTimeout = 0 /\ SleepTicks(leaseTimeout) = 0))
    /\ [][renewPc' # renewPc => <<renewPc, renewPc'>> \in RenewalSteps]_vars
    /\ [][(renewPc = "renew" /\ renewPc' = "stopped")
             => (renewCalls' = renewCalls + 1 /\ renewOks' = renewOks)]_vars
    /\ [][(renewPc = "renew" /\ renewPc' = "sleep")
             => (renewCalls' = renewCalls + 1 /\ renewOks' = renewOks + 1
                 /\ leaseTimeout' = lastLease' \div 2)]_vars
    /\ (renewPc = "sleep") ~> (renewPc = "renew" \/ ~Running)

\* After every renewal the bound allows has succeeded, the last of them
\* with a lease of two seconds, the loop has waited and begun its next call.
C21_Witness ==
    /\ renewPc = "renew"
    /\ renewOks = MaxRenewals
    /\ lastLease = 2
    /\ slept = 2
    /\ Running

\* C22: once the child has terminated the program terminates, whatever the
\* renewal loop and the relay goroutine are doing.
C22_ChildExitEndsProgram ==
    (child = "zombie") ~> ~Running

\* The program has exited after the child did, with the renewal loop still
\* in a renewal call and the relay goroutine in the middle of a delivery.
C22_Witness ==
    /\ mainPc = "exited"
    /\ child = "reaped"
    /\ renewPc = "renew"
    /\ relayPc = "deliver"

\* C23: the child is launched, and the renewal loop started, only after
\* the command check, config generation, validation and the secret fetch
\* all succeeded; when one of them fails the program exits with a code
\* that is not 0, with no child, no renewal loop, no signal subscription
\* and no relay goroutine ever started.
C23_NoLaunchWithoutSecrets ==
    /\ (Launched \/ renewPc # "none" \/ mainPc \notin {"config", "exited"})
           => configOk
    /\ ~configOk => (mainPc \in {"config", "exited"} /\ child = "none"
                     /\ renewPc = "none" /\ relayPc = "none" /\ ~subscribed
                     /\ renewCalls = 0)
    /\ (mainPc = "exited" /\ ~configOk) => exitCode = 1

\* A run that ended at the failed configuration or secret fetch.
C23_Witness ==
    /\ mainPc = "exited"
    /\ ~configOk
    /\ exitCode = 1
    /\ child = "none"
    /\ renewPc = "none"
    /\ runErr = "nil"

\* C25: after a successful renewal, whatever lease duration it returned,
\* the loop waits a strictly positive time before its next call of
\* RenewVaultToken.
C25_PositiveWaitBetweenRenewals ==
    (renewOks > 0 /\ renewPc \in {"sleep", "renew"})
        => SleepTicks(leaseTimeout) > 0

\* C27: no signal the OS delivers after signal.Notify while the child is
\* alive is lost: as long as the child runs, the relay goroutine has
\* received every signal delivered so far.
C27_NoSignalLost ==
    child = "running" => osSignals = Len(received)

\* ------------------------------------------------- the sleep's duration
\* int64 values (time.Duration, the lease duration) are written as their
\* eight bytes, lowest first, so that the 64-bit arithmetic is exact.
Base == 256

DurationBytes == 8

\* The sign bit.
Negative64(x) == x[DurationBytes] >= Base \div 2

\* Lease durations d >= 0: every byte 0 or 255 (the top one 0 or 127), two
\* days, and the two values on either side of the largest product of
\* floor(d/2) and 10^9 that fits 63 bits.
LeaseValues ==
    {x \in [1..DurationBytes -> {0, 255}] : ~Negative64(x)}
    \cup {[x EXCEPT ![DurationBytes] = 127] :
              x \in {y \in [1..DurationBytes -> {0, 255}] : Negative64(y)}}
    \cup {<<0, 163, 2, 0, 0, 0, 0, 0>>,
          <<9, 250, 130, 75, 4, 0, 0, 0>>,
          <<10, 250, 130, 75, 4, 0, 0, 0>>,
          <<11, 250, 130, 75, 4, 0, 0, 0>>}

\* x / 2 for x >= 0: every byte halved, taking in the low bit of the next.
Half64(x) ==
    [i \in 1..DurationBytes |->
        (x[i] \div 2)
            + (IF i < DurationBytes THEN (x[i + 1] % 2) * (Base \div 2) ELSE 0)]

\* x * m + carry as bytes, as many as the product needs (m below 2^15).
RECURSIVE MulBytes(_, _, _)
MulBytes(x, m, carry) ==
    IF x = <<>>
    THEN IF carry = 0 THEN <<>>
         ELSE <<carry % Base>> \o MulBytes(<<>>, m, carry \div Base)
    ELSE LET t == Head(x) * m + carry
         IN  <<t % Base>> \o MulBytes(Tail(x), m, t \div Base)

\* The low 64 bits of a product: what an int64 multiplication keeps.
Wrap64(x) == [i \in 1..DurationBytes |-> x[i]]

\* d * time.Second: time.Second is 1000 * 1000 * 1000 nanoseconds.
SecondsProduct(x) ==
    MulBytes(MulBytes(MulBytes(x, 1000, 0), 1000, 0), 1000, 0)

MulSecond(x) == Wrap64(SecondsProduct(x))

\* main.go 75 and 67: leaseTimeout = time.Duration(leaseDuration) / 2, then
\* time.Sleep(leaseTimeout * time.Second); a duration that is negative or
\* zero makes Sleep return at once.
SleepDuration(leaseDuration) ==
    LET ns == MulSecond(Half64(leaseDuration))
    IN  [ns |-> ns,
         atOnce |-> Negative64(ns) \/ ns = [i \in 1..DurationBytes |-> 0]]

InitSleep ==
    /\ ProgramStart
    /\ input \in LeaseValues
    /\ output = <<>>

ComputeSleep ==
    /\ output = <<>>
    /\ output' = <<SleepDuration(input)>>
    /\ UNCHANGED <<mainVars, childVars, relayVars, renewVars, input>>

SpecSleep == InitSleep /\ [][ComputeSleep]_vars

\* floor(d/2) * 10^9 without a width, 10^9 taken as 31250 * 32000.
ExactNanoseconds(d) == MulBytes(MulBytes(Half64(d), 31250, 0), 32000, 0)

\* C26: for every lease duration d >= 0 the sleep computed in 64 bits is
\* floor(d/2) seconds: the product has no bit beyond the 63rd, so the sleep
\* is not negative and is the exact product.
C26_SleepDoesNotOverflow ==
    output # <<>> =>
        /\ Len(ExactNanoseconds(input)) = DurationBytes
        /\ ~Negative64(output[1].ns)
        /\ output[1].ns = ExactNanoseconds(input)

====
